---- MODULE Spec2Model ----
(***************************************************************************)
(* Model of spinnaker.py (dcc-spinnaker-client): identity derivation       *)
(* (generateUuid5 / setUuids), bundle assembly (getWorkflowObjects) and    *)
(* the donor merge (mergeDonors).                                          *)
(*                                                                         *)
(* The specifications share the variables below:                           *)
(*   SpecUuid, SpecUuidPairs  - generateUuid5 on bounded tuples            *)
(*   SpecAssemble             - the record loop of getWorkflowObjects      *)
(*   SpecMerge                - the bundle loop of mergeDonors, run twice  *)
(*                              on the same bundle objects                 *)
(*   SpecMergeVersions        - mergeDonors on entries with names and with *)
(*                              versions that may not parse                *)
(*   SpecEndToEnd             - getWorkflowObjects, then mergeDonors       *)
(*   SpecMain                 - main from the record loop to the receipt   *)
(* Each specification leaves the variables of the others at their idle     *)
(* values.                                                                 *)
(***************************************************************************)
EXTENDS Integers, Sequences, FiniteSets, TLC

VARIABLES
    \* ---- generateUuid5 ----
    tupA,       \* nameComponents of the first call
    tupB,       \* nameComponents of the second call
    idA,        \* id returned by the first call  (NoId before the call)
    idB,        \* id returned by the second call (NoId before the call)
    upc,        \* position in the derivation scenario
    \* ---- getWorkflowObjects ----
    flatMetadataObjs,   \* the argument: a sequence of flat records
    commonObjMap,       \* workflow_uuid -> bundle under construction
    apos,               \* index of the next record of the loop
    apc,                \* "idle", "loop", "done" (returned) or "failed" (raised)
    clock,              \* what getNow() returns next
    \* ---- mergeDonors ----
    bundles,            \* the argument: bundle i is the object metadataObjs[i]
    specimenList,       \* bundle object i     -> its "specimen" list (object ids)
    samplesList,        \* specimen object i   -> its "samples" list (object ids)
    analysisList,       \* sample object i     -> its "analysis" list (object ids)
    timestamp,          \* bundle object i     -> its top-level "timestamp"
    donorMapping,       \* donor_uuid -> bundle object
    uuid_to_timestamp,  \* donor_uuid -> list of timestamps
    mpos,               \* index of the next bundle of the loop
    mpc,                \* "idle", "loop" or "returned"
    run,                \* 1: first call, 2: second call on the same objects
    firstResult,        \* the DonorMapping the first call returned, as a value
    \* ---- main ----
    fileDataList,       \* the rows read from the input file
    inputMetadataSchema,    \* the flat schema loaded for getDataObj
    metadataSchema,     \* the bundle schema loaded by validateMetadataObjs
    options,            \* skip_upload and skip_submit
    rpos,               \* index of the next row of "for data in fileDataList"
    mainpc,             \* position in main; "exit1" is sys.exit(1), "raised"
                        \* an exception nothing catches
    bundleDirs,         \* bundle_uuid -> what writeDataBundleDirs wrote there
    submission,         \* "none", or "created" once the POST has been made
    registration,       \* the registration manifest: written or not, its rows
    redwood_upload_manifest,    \* None, or the bundle_uuid the path ends with
    uploadManifests,    \* bundle_uuid -> upload manifest written on registering
    uploaded,           \* object ids of the files the upload has stored
    receipt,            \* the receipt file: written or not, bundle_uuid -> rows
    receiptSent,        \* TRUE once the receipt was PUT to the server
    calls               \* register_upload / perform_upload calls made so
                        \* far, each with the success value it returned

uuidVars == <<tupA, tupB, idA, idB, upc>>
asmVars == <<flatMetadataObjs, commonObjMap, apos, apc, clock>>
heapVars == <<specimenList, samplesList, analysisList, timestamp>>
mergeVars == <<bundles, heapVars, donorMapping, uuid_to_timestamp, mpos, mpc,
               run, firstResult>>
mainVars == <<fileDataList, inputMetadataSchema, metadataSchema, options, rpos,
              mainpc, bundleDirs, submission, registration,
              redwood_upload_manifest, uploadManifests, uploaded, receipt,
              receiptSent, calls>>
vars == <<uuidVars, asmVars, mergeVars, mainVars>>

(***************************************************************************)
(* Bounds of the model.                                                    *)
(***************************************************************************)
MaxTuple == 3       \* most components in one nameComponents list
MaxNameLen == 3     \* most characters in one nameComponents list, in total

(***************************************************************************)
(* Strings are sequences of characters.  "e9" stands for a character       *)
(* outside ASCII (an accented letter read from a spreadsheet cell).        *)
(***************************************************************************)
Alphabet == {"a", "A", "e9"}

NonAscii == {"e9"}

RECURSIVE SumLen(_)
SumLen(t) == IF t = <<>> THEN 0 ELSE Len(Head(t)) + SumLen(Tail(t))

StringsUpTo(n) == UNION {[1..k -> Alphabet] : k \in 0..n}

\* the lists of k non-empty strings holding at most n characters in total
RECURSIVE TuplesOf(_, _)
TuplesOf(k, n) ==
    IF k = 0 THEN {<<>>}
    ELSE UNION {{<<s>> \o t : t \in TuplesOf(k - 1, n - Len(s))} :
                    s \in StringsUpTo(n) \ {<<>>}}

\* every list of 1..MaxTuple business-key strings (none of them empty) holding
\* at most MaxNameLen characters
Tuples == UNION {TuplesOf(k, MaxNameLen) : k \in 1..MaxTuple}

\* nameComponent.encode('ascii', 'ignore'): characters outside ASCII are dropped
EncodeAsciiIgnore(s) == SelectSeq(s, LAMBDA c : c \notin NonAscii)

LowerChar(c) == IF c = "A" THEN "a" ELSE c

\* str.lower()
Lower(s) == [i \in 1..Len(s) |-> LowerChar(s[i])]

\* "".join(strings)
RECURSIVE Join(_)
Join(strings) ==
    IF strings = <<>> THEN <<>> ELSE Head(strings) \o Join(Tail(strings))

NAMESPACE_URL == "NAMESPACE_URL"

\* uuid.uuid5(namespace, name): a hash, taken as injective in (namespace, name)
uuid5(namespace, name) == <<"uuid5", namespace, name>>

\* faulty variant: the last component is left out of the name
generateUuid5_DropLast(nameComponents) ==
    uuid5(NAMESPACE_URL,
          Lower(Join([i \in 1..(Len(nameComponents) - 1) |->
                        EncodeAsciiIgnore(nameComponents[i])])))

generateUuid5(nameComponents) ==
    uuid5(NAMESPACE_URL,
          Lower(Join([i \in 1..Len(nameComponents) |->
                        EncodeAsciiIgnore(nameComponents[i])])))

NoId == <<"none">>
NoTuple == <<>>

(***************************************************************************)
(* SpecUuid: derive the id of a tuple, derive it again, then derive the id *)
(* of the tuple with one component replaced by a different string.         *)
(***************************************************************************)
UuidIdle ==
    /\ tupA = NoTuple
    /\ tupB = NoTuple
    /\ idA = NoId
    /\ idB = NoId
    /\ upc = "idle"

AsmIdle ==
    /\ flatMetadataObjs = <<>>
    /\ commonObjMap = <<>>
    /\ apos = 0
    /\ apc = "idle"
    /\ clock = 0

MergeIdle ==
    /\ bundles = <<>>
    /\ specimenList = <<>>
    /\ samplesList = <<>>
    /\ analysisList = <<>>
    /\ timestamp = <<>>
    /\ donorMapping = <<>>
    /\ uuid_to_timestamp = <<>>
    /\ mpos = 0
    /\ mpc = "idle"
    /\ run = 0
    /\ firstResult = <<>>

\* Python's None: distinct from every string of the model
None == <<"None">>

\* a file main has not written yet
NoFile == [written |-> FALSE, rows |-> <<>>]

MainIdle ==
    /\ fileDataList = <<>>
    /\ inputMetadataSchema = "none"
    /\ metadataSchema = "none"
    /\ options = <<>>
    /\ rpos = 0
    /\ mainpc = "idle"
    /\ bundleDirs = <<>>
    /\ submission = "none"
    /\ registration = NoFile
    /\ redwood_upload_manifest = None
    /\ uploadManifests = <<>>
    /\ uploaded = {}
    /\ receipt = NoFile
    /\ receiptSent = FALSE
    /\ calls = <<>>

UuidInit ==
    /\ AsmIdle
    /\ MergeIdle
    /\ MainIdle
    /\ tupA \in Tuples
    /\ tupB = NoTuple
    /\ idA = NoId
    /\ idB = NoId
    /\ upc = "start"

\* id = generateUuid5(keyList), first call
DeriveFirst ==
    /\ upc = "start"
    /\ idA' = generateUuid5(tupA)
    /\ upc' = "derived"
    /\ UNCHANGED <<tupA, tupB, idB, asmVars, mergeVars, mainVars>>

\* the same keyList derived a second time
DeriveAgain ==
    /\ upc = "derived"
    /\ tupB' = tupA
    /\ idB' = generateUuid5(tupA)
    /\ upc' = "again"
    /\ UNCHANGED <<tupA, idA, asmVars, mergeVars, mainVars>>

\* one component replaced by a different string, all others unchanged
DeriveReplaced ==
    /\ upc = "derived"
    /\ \E i \in 1..Len(tupA) : \E s \in StringsUpTo(MaxNameLen) \ {<<>>} :
          /\ s # tupA[i]
          /\ SumLen([tupA EXCEPT ![i] = s]) <= MaxNameLen
          /\ tupB' = [tupA EXCEPT ![i] = s]
          /\ idB' = generateUuid5([tupA EXCEPT ![i] = s])
    /\ upc' = "replaced"
    /\ UNCHANGED <<tupA, idA, asmVars, mergeVars, mainVars>>

\* any other tuple, of the same or of a different length
DeriveOther ==
    /\ upc = "derived"
    /\ \E t \in Tuples :
          /\ t # tupA
          /\ tupB' = t
          /\ idB' = generateUuid5(t)
    /\ upc' = "other"
    /\ UNCHANGED <<tupA, idA, asmVars, mergeVars, mainVars>>

UuidNext == DeriveFirst \/ DeriveAgain \/ DeriveReplaced

SpecUuid == UuidInit /\ [][UuidNext]_vars

UuidPairsNext == DeriveFirst \/ DeriveOther

SpecUuidPairs == UuidInit /\ [][UuidPairsNext]_vars

\* the name generateUuid5 hashes for a component: ASCII only, lower case
Normal(s) == Lower(EncodeAsciiIgnore(s))

\* the position where tupA and tupB differ, in a "replaced" state
ReplacedAt == CHOOSE i \in 1..Len(tupA) : tupA[i] # tupB[i]

NormalTuple(t) == [i \in 1..Len(t) |-> Normal(t[i])]

\* C2: two different ordered tuples (of the same or of different lengths,
\* different also once each component is lowercased and stripped to ASCII)
\* always get different ids.
C2_GloballyUnique ==
    (upc = "other" /\ NormalTuple(tupA) # NormalTuple(tupB)) => idB # idA

(***************************************************************************)
(* setUuids and the flat records handed to getWorkflowObjects.             *)
(***************************************************************************)
MaxRecords == 2     \* most flat records in one call of getWorkflowObjects
StartClock == 8     \* the clock reading when getWorkflowObjects is entered

\* str(uuid) used as a name component: one token, ASCII and lower case already
IdString(id) == <<id>>

\* a workflow_version such as "1.0.0" used as a name component
VersionString(v) == <<v>>

\* setUuids: donor, specimen and sample ids from the prefixes of the business
\* key, then workflow_uuid from (sample_uuid, workflow_name, workflow_version)
setUuids(dataObj) ==
    LET donor == generateUuid5(<<dataObj.center_name,
                                 dataObj.submitter_donor_id>>)
        specimen == generateUuid5(<<dataObj.center_name,
                                    dataObj.submitter_donor_id,
                                    dataObj.submitter_specimen_id>>)
        sample == generateUuid5(<<dataObj.center_name,
                                  dataObj.submitter_donor_id,
                                  dataObj.submitter_specimen_id,
                                  dataObj.submitter_sample_id>>)
        workflow == generateUuid5(<<IdString(sample),
                                    dataObj.workflow_name,
                                    VersionString(dataObj.workflow_version)>>)
    IN  ("donor_uuid" :> donor) @@ ("specimen_uuid" :> specimen) @@
        ("sample_uuid" :> sample) @@ ("workflow_uuid" :> workflow) @@ dataObj

\* return x[y] if y in x else ''
getValueFromObject(x, y) == IF y \in DOMAIN x THEN x[y] ELSE ""

\* the input rows of the model: two spellings of one center, two workflow
\* versions, three file paths (the last names a file that does not exist), with
\* or without the optional primary site
InputRow(cn, ver, fp) ==
    [program |-> "prog", project |-> IF cn = <<"a">> THEN "proj1" ELSE "proj2",
     center_name |-> cn, submitter_donor_id |-> <<"a">>,
     submitter_specimen_id |-> <<"a">>, submitter_specimen_type |-> "tumor",
     submitter_experimental_design |-> "rna",
     submitter_sample_id |-> <<"a">>,
     workflow_name |-> <<"a">>, workflow_version |-> ver,
     analysis_type |-> "qc", file_type |-> IF fp = "f1" THEN "bam" ELSE "tar",
     file_path |-> fp]

WithSite(row) == ("submitter_donor_primary_site" :> "lung") @@ row

FilePaths == {"f1", "f2", "f3"}
ExistingFiles == {"f1", "f2"}

InputRows ==
    LET plain == {InputRow(cn, ver, fp) :
                    cn \in {<<"a">>, <<"A">>}, ver \in {"1.0.0", "1.1.0"},
                    fp \in FilePaths}
    IN  plain \cup {WithSite(r) : r \in plain}

\* the flat records main collects: each row passed through setUuids
FlatRecords == {setUuids(r) : r \in InputRows}

\* os.path.getsize(path) and sha1sum(path) of a file that exists
FileSize(path) == IF path = "f1" THEN 1 ELSE 2
Sha1Sum(path) == <<"sha1$", path>>

\* datetime.isoformat(): a fixed-width string, here two decimal digits
IsoFormat(t) == <<(t \div 10) % 10, t % 10>>

schema_version == "0.0.3"

(***************************************************************************)
(* getWorkflowObjects                                                      *)
(***************************************************************************)
\* the bundle skeleton built for the first record of a workflow_uuid
NewWorkflowObj(metaObj, now) ==
    [program |-> metaObj.program,
     project |-> metaObj.project,
     center_name |-> metaObj.center_name,
     submitter_donor_id |-> metaObj.submitter_donor_id,
     donor_uuid |-> metaObj.donor_uuid,
     submitter_donor_primary_site |->
         getValueFromObject(metaObj, "submitter_donor_primary_site"),
     timestamp |-> IsoFormat(now),
     schema_version |-> schema_version,
     specimen |-> <<
       [submitter_specimen_id |-> metaObj.submitter_specimen_id,
        submitter_specimen_type |-> metaObj.submitter_specimen_type,
        submitter_experimental_design |->
            metaObj.submitter_experimental_design,
        specimen_uuid |-> metaObj.specimen_uuid,
        samples |-> <<
          [submitter_sample_id |-> metaObj.submitter_sample_id,
           sample_uuid |-> metaObj.sample_uuid,
           analysis |-> <<
             [workflow_name |-> metaObj.workflow_name,
              workflow_version |-> metaObj.workflow_version,
              analysis_type |-> metaObj.analysis_type,
              workflow_outputs |-> <<>>,
              bundle_uuid |-> metaObj.workflow_uuid]>>]>>]>>]

\* the file descriptor of a record; file_size and file_sha are set last, and
\* are not set (the keys are absent) when os.path.getsize raises for a
\* missing file
FileInfoObj(metaObj) ==
    IF metaObj.file_path \in ExistingFiles
    THEN [file_type |-> metaObj.file_type, file_path |-> metaObj.file_path,
          file_size |-> FileSize(metaObj.file_path),
          file_sha |-> Sha1Sum(metaObj.file_path)]
    ELSE [file_type |-> metaObj.file_type, file_path |-> metaObj.file_path]

\* faulty variant: the descriptor goes to the front of workflow_outputs
AddFileInfo_Prepend(workflowObj, fileInfoObj) ==
    [workflowObj EXCEPT
        !.specimen[1].samples[1].analysis[1].workflow_outputs =
            <<fileInfoObj>> \o @]

\* wf_outputsObj.append(fileInfoObj)
AddFileInfo(workflowObj, fileInfoObj) ==
    [workflowObj EXCEPT
        !.specimen[1].samples[1].analysis[1].workflow_outputs =
            Append(@, fileInfoObj)]

\* faulty variant: the skeleton is rebuilt for every record
GetOrCreate_Always(map, metaObj, now) ==
    (metaObj.workflow_uuid :> NewWorkflowObj(metaObj, now)) @@ map

\* the map after the "if workflow_uuid in commonObjMap.keys()" statement
GetOrCreate(map, metaObj, now) ==
    IF metaObj.workflow_uuid \in DOMAIN map
    THEN map
    ELSE (metaObj.workflow_uuid :> NewWorkflowObj(metaObj, now)) @@ map

\* one pass of the loop body for metaObj, on the map
ProcessRecord(map, metaObj, now) ==
    LET created == GetOrCreate(map, metaObj, now)
        w == metaObj.workflow_uuid
    IN  [created EXCEPT ![w] = AddFileInfo(@, FileInfoObj(metaObj))]

AsmInit ==
    /\ UuidIdle
    /\ MergeIdle
    /\ MainIdle
    /\ flatMetadataObjs \in
          UNION {[1..n -> FlatRecords] : n \in 0..MaxRecords}
    /\ commonObjMap = <<>>
    /\ apos = 1
    /\ apc = "loop"
    /\ clock = StartClock

\* one iteration of "for metaObj in flatMetadataObjs"; a missing file ends the
\* call with an exception, the descriptor appended but incomplete, and so does
\* a record that has no workflow_uuid
AssembleRecord ==
    /\ apc = "loop"
    /\ apos <= Len(flatMetadataObjs)
    /\ IF "workflow_uuid" \in DOMAIN flatMetadataObjs[apos]
       THEN /\ commonObjMap' =
                  ProcessRecord(commonObjMap, flatMetadataObjs[apos], clock)
            /\ apc' = IF flatMetadataObjs[apos].file_path \in ExistingFiles
                      THEN "loop" ELSE "failed"
       ELSE \* metaObj["workflow_uuid"] raises KeyError
            /\ commonObjMap' = commonObjMap
            /\ apc' = "failed"
    /\ apos' = apos + 1
    /\ clock' = clock + 1
    /\ UNCHANGED <<flatMetadataObjs, uuidVars, mergeVars, mainVars>>

\* return commonObjMap
AssembleReturn ==
    /\ apc = "loop"
    /\ apos > Len(flatMetadataObjs)
    /\ apc' = "done"
    /\ UNCHANGED <<flatMetadataObjs, commonObjMap, apos, clock, uuidVars,
                   mergeVars, mainVars>>

AsmNext == AssembleRecord \/ AssembleReturn


SpecAssemble == AsmInit /\ [][AsmNext]_vars

\* the records processed so far
Processed == SubSeq(flatMetadataObjs, 1, apos - 1)

\* the records among s with workflow_uuid w, in order
WithUuid(s, w) == SelectSeq(s, LAMBDA r : r.workflow_uuid = w)

Outputs(workflowObj) ==
    workflowObj.specimen[1].samples[1].analysis[1].workflow_outputs

\* C9: when getWorkflowObjects returns, the map has one bundle per distinct
\* workflow_uuid of the input; the bundle's workflow_outputs holds one
\* descriptor per input record of that workflow_uuid, in input order; and the
\* bundle's bundle_uuid is that workflow_uuid.
C9_AssemblyGrouping ==
    apc = "done" =>
        /\ DOMAIN commonObjMap =
              {flatMetadataObjs[i].workflow_uuid :
                  i \in 1..Len(flatMetadataObjs)}
        /\ \A w \in DOMAIN commonObjMap :
              LET rows == WithUuid(flatMetadataObjs, w)
              IN  /\ Outputs(commonObjMap[w]) =
                        [i \in 1..Len(rows) |-> FileInfoObj(rows[i])]
                  /\ \A i \in 1..Len(rows) :
                        /\ Outputs(commonObjMap[w])[i].file_path =
                              rows[i].file_path
                        /\ "file_size" \in DOMAIN Outputs(commonObjMap[w])[i]
                  /\ commonObjMap[w].specimen[1].samples[1].analysis[1]
                        .bundle_uuid = w

C9_Witness ==
    /\ apc = "done"
    /\ Len(flatMetadataObjs) = MaxRecords
    /\ Cardinality(DOMAIN commonObjMap) = 1
    /\ \E w \in DOMAIN commonObjMap :
          /\ Len(Outputs(commonObjMap[w])) = MaxRecords
          /\ Outputs(commonObjMap[w])[1].file_path #
                Outputs(commonObjMap[w])[2].file_path

\* the index of the first record with workflow_uuid w
FirstIndex(w) ==
    CHOOSE i \in 1..Len(flatMetadataObjs) :
        /\ flatMetadataObjs[i].workflow_uuid = w
        /\ \A j \in 1..(i - 1) : flatMetadataObjs[j].workflow_uuid # w

\* C10: after every record of the loop, every bundle of the map has exactly
\* one specimen, that specimen one sample, that sample one analysis entry, and
\* at least one workflow_outputs entry; and everything in the bundle but its
\* workflow_outputs (timestamp, schema_version, donor, specimen, sample and
\* workflow fields) is what the first record seen with that workflow_uuid set,
\* with the clock reading of that record.
C10_BundleShape ==
    apc # "idle" =>
        \A w \in DOMAIN commonObjMap :
            LET obj == commonObjMap[w]
                first == FirstIndex(w)
            IN  /\ Len(obj.specimen) = 1
                /\ Len(obj.specimen[1].samples) = 1
                /\ Len(obj.specimen[1].samples[1].analysis) = 1
                /\ Len(Outputs(obj)) >= 1
                /\ first < apos
                /\ [obj EXCEPT !.specimen[1].samples[1].analysis[1]
                                    .workflow_outputs = <<>>]
                      = NewWorkflowObj(flatMetadataObjs[first],
                                       StartClock + first - 1)
                /\ obj.schema_version = "0.0.3"

C10_Witness ==
    /\ apc = "loop"
    /\ apos = 3
    /\ flatMetadataObjs[1].workflow_uuid = flatMetadataObjs[2].workflow_uuid
    /\ flatMetadataObjs[1].project # flatMetadataObjs[2].project
    /\ "submitter_donor_primary_site" \notin DOMAIN flatMetadataObjs[1]
    /\ "submitter_donor_primary_site" \in DOMAIN flatMetadataObjs[2]
    /\ \E w \in DOMAIN commonObjMap :
          /\ Len(Outputs(commonObjMap[w])) = 2
          /\ commonObjMap[w].project = flatMetadataObjs[1].project
          /\ commonObjMap[w].submitter_donor_primary_site = ""
          /\ commonObjMap[w].timestamp = IsoFormat(StartClock)
          /\ IsoFormat(clock) # IsoFormat(StartClock)

(***************************************************************************)
(* mergeDonors.                                                            *)
(*                                                                         *)
(* The bundles are Python objects: mergeDonors stores the first bundle of  *)
(* a donor in the mapping itself, and appends incoming specimen, sample    *)
(* and analysis objects to the saved lists, so the mapping shares objects  *)
(* with its inputs.  Input bundle i consists of the bundle object i, the   *)
(* specimen object i, the sample object i and the analysis object i; the   *)
(* list variables hold object ids, and bundles[i] holds the fields that    *)
(* mergeDonors never assigns.                                              *)
(***************************************************************************)
MaxBundles == 2     \* most bundles in one call of mergeDonors

\* timestamps are fixed-width strings of digits, as isoformat() writes them
T0 == <<0, 8>>
T1 == <<0, 9>>
T2 == <<1, 0>>
T3 == <<1, 1>>

\* analysis entries: the optional "timestamp" key is absent or present
AnalysisEntries ==
    {[analysis_type |-> "x", workflow_version |-> v] :
        v \in {"1.0.0", "2.0.0"}}
    \cup {[analysis_type |-> "x", workflow_version |-> v, timestamp |-> t] :
            v \in {"1.0.0", "2.0.0"}, t \in {T1, T2}}
    \cup {[analysis_type |-> "y", workflow_version |-> "1.0.0"],
          [analysis_type |-> "y", workflow_version |-> "1.0.0",
           timestamp |-> T2]}

\* donor, specimen and sample ids nest as setUuids derives them
Paths ==
    {[donor_uuid |-> "d1", specimen_uuid |-> "p1", sample_uuid |-> "s1"],
     [donor_uuid |-> "d1", specimen_uuid |-> "p1", sample_uuid |-> "s2"],
     [donor_uuid |-> "d1", specimen_uuid |-> "p2", sample_uuid |-> "s3"],
     [donor_uuid |-> "d2", specimen_uuid |-> "p3", sample_uuid |-> "s4"]}

\* an input bundle: one specimen, one sample, one analysis entry
InputBundles ==
    {[donor_uuid |-> p.donor_uuid, specimen_uuid |-> p.specimen_uuid,
      sample_uuid |-> p.sample_uuid, timestamp |-> t, analysis |-> a] :
        p \in Paths, t \in {T0, T3}, a \in AnalysisEntries}

\* the bundle sequences of the model begin with a bundle of sample "s1"
BundleSeqs ==
    {b \in UNION {[1..n -> InputBundles] : n \in 1..MaxBundles} :
        b[1].sample_uuid = "s1"}

AnalysisOf(a) == bundles[a].analysis
HasTimestamp(a) == "timestamp" \in DOMAIN AnalysisOf(a)

SetMax(S) == CHOOSE x \in S : \A y \in S : y <= x

\* the index of the last element of list that passes Test, or 0
LastIndex(list, Test(_)) ==
    LET hits == {j \in 1..Len(list) : Test(list[j])}
    IN  IF hits = {} THEN 0 ELSE SetMax(hits)

\* faulty variant: nothing is removed
ListRemove_Nothing(list, x) == list

\* list.remove(x) for a list of analysis objects: the first element equal to
\* x as a dict is dropped
ListRemove(list, x) ==
    LET k == CHOOSE j \in 1..Len(list) :
                /\ AnalysisOf(list[j]) = AnalysisOf(x)
                /\ \A i \in 1..(j - 1) : AnalysisOf(list[i]) # AnalysisOf(x)
    IN  SubSeq(list, 1, k - 1) \o SubSeq(list, k + 1, Len(list))

\* semver.parse of the version strings of the model
SemverParse(v) ==
    CASE v = "1.0.0" -> <<1, 0, 0>>
      [] v = "1.1.0" -> <<1, 1, 0>>
      [] v = "2.0.0" -> <<2, 0, 0>>

\* the version strings semver.parse accepts; it raises ValueError for others
ValidVersion(v) == v \in {"1.0.0", "1.1.0", "2.0.0"}

\* semver.compare(ver1, ver2) parses both versions before it compares them
CompareRaises(ver1, ver2) == ~ValidVersion(ver1) \/ ~ValidVersion(ver2)

\* semver.compare(ver1, ver2): -1, 0 or 1
SemverCompare(ver1, ver2) ==
    LET a == SemverParse(ver1)
        b == SemverParse(ver2)
        k == IF a = b THEN 0 ELSE CHOOSE i \in 1..3 :
                a[i] # b[i] /\ \A j \in 1..(i - 1) : a[j] = b[j]
    IN  IF k = 0 THEN 0 ELSE IF a[k] < b[k] THEN 0 - 1 ELSE 1

\* dateutil.parser.parse(ts), as a number of seconds
DateParse(ts) == ts[1] * 10 + ts[2]

\* s < t for Python strings of digits
RECURSIVE StrLess(_, _)
StrLess(s, t) ==
    IF t = <<>> THEN FALSE
    ELSE IF s = <<>> THEN TRUE
    ELSE IF Head(s) = Head(t) THEN StrLess(Tail(s), Tail(t))
    ELSE Head(s) < Head(t)

\* max(timestamp_list)
PyMax(list) ==
    list[CHOOSE i \in 1..Len(list) :
            \A j \in 1..Len(list) : ~StrLess(list[i], list[j])]

\* what the loop of mergeDonors reads and writes; err says that an exception
\* has ended the call
MergeState ==
    [map |-> donorMapping, hist |-> uuid_to_timestamp,
     spec |-> specimenList, samp |-> samplesList, an |-> analysisList,
     err |-> (mpc = "raised")]

\* uuid_to_timestamp[donor_uuid].append(bundle["timestamp"]), if the key is there
NoteTimestamp(st, d, a) ==
    IF HasTimestamp(a)
    THEN [st EXCEPT !.hist[d] = Append(@, AnalysisOf(a).timestamp)]
    ELSE st

\* faulty variant: the saved entry is removed and the incoming one is dropped
Replace_RemoveOnly(st, d, sampleObj, analysisObj, a) ==
    [st EXCEPT !.an[sampleObj] = ListRemove(@, analysisObj)]

\* faulty variant: the saved entry is not removed
Replace_KeepBoth(st, d, sampleObj, analysisObj, a) ==
    NoteTimestamp([st EXCEPT !.an[sampleObj] = Append(@, a)], d, a)

\* sampleObj["analysis"].remove(analysisObj); .append(bundle); timestamp mapping
Replace(st, d, sampleObj, analysisObj, a) ==
    NoteTimestamp(
        [st EXCEPT !.an[sampleObj] = Append(ListRemove(@, analysisObj), a)],
        d, a)

\* faulty variant: the version comparison is read the wrong way round
Resolve_Reversed(st, d, sampleObj, analysisObj, a) ==
    LET cmp == SemverCompare(AnalysisOf(analysisObj).workflow_version,
                             AnalysisOf(a).workflow_version)
    IN  IF cmp = 1
        THEN Replace(st, d, sampleObj, analysisObj, a)
        ELSE IF /\ cmp = 0
                /\ HasTimestamp(a)
                /\ HasTimestamp(analysisObj)
                /\ DateParse(AnalysisOf(analysisObj).timestamp)
                      - DateParse(AnalysisOf(a).timestamp) < 0
        THEN Replace(st, d, sampleObj, analysisObj, a)
        ELSE st

\* faulty variant: equal versions are never broken by timestamp
Resolve_VersionOnly(st, d, sampleObj, analysisObj, a) ==
    LET cmp == SemverCompare(AnalysisOf(analysisObj).workflow_version,
                             AnalysisOf(a).workflow_version)
    IN  IF cmp = 0 - 1
        THEN Replace(st, d, sampleObj, analysisObj, a)
        ELSE st

\* faulty variant: with equal versions an incoming entry of equal timestamp wins too
Resolve_NonStrict(st, d, sampleObj, analysisObj, a) ==
    LET cmp == SemverCompare(AnalysisOf(analysisObj).workflow_version,
                             AnalysisOf(a).workflow_version)
    IN  IF cmp = 0 - 1
        THEN Replace(st, d, sampleObj, analysisObj, a)
        ELSE IF /\ cmp = 0
                /\ HasTimestamp(a)
                /\ HasTimestamp(analysisObj)
                /\ DateParse(AnalysisOf(analysisObj).timestamp)
                      - DateParse(AnalysisOf(a).timestamp) <= 0
        THEN Replace(st, d, sampleObj, analysisObj, a)
        ELSE st

\* the "else" branch: saved analysisObj against incoming a of the same type
Resolve(st, d, sampleObj, analysisObj, a) ==
    LET cmp == SemverCompare(AnalysisOf(analysisObj).workflow_version,
                             AnalysisOf(a).workflow_version)
    IN  IF cmp = 0 - 1
        THEN Replace(st, d, sampleObj, analysisObj, a)
        ELSE IF /\ cmp = 0
                /\ HasTimestamp(a)
                /\ HasTimestamp(analysisObj)
                /\ DateParse(AnalysisOf(analysisObj).timestamp)
                      - DateParse(AnalysisOf(a).timestamp) < 0
        THEN Replace(st, d, sampleObj, analysisObj, a)
        ELSE st

\* faulty variant: a version that does not parse leaves the saved entry in place
MergeAnalysis_SkipInvalid(st, d, sampleObj, a) ==
    LET saved == st.an[sampleObj]
        k == LastIndex(saved, LAMBDA o :
                AnalysisOf(o).analysis_type = AnalysisOf(a).analysis_type)
    IN  IF k = 0
        THEN NoteTimestamp([st EXCEPT !.an[sampleObj] = Append(@, a)], d, a)
        ELSE IF CompareRaises(AnalysisOf(saved[k]).workflow_version,
                              AnalysisOf(a).workflow_version)
        THEN st
        ELSE Resolve(st, d, sampleObj, saved[k], a)

\* one analysis entry a of the incoming sample against the saved sampleObj
MergeAnalysis(st, d, sampleObj, a) ==
    LET saved == st.an[sampleObj]
        k == LastIndex(saved, LAMBDA o :
                AnalysisOf(o).analysis_type = AnalysisOf(a).analysis_type)
    IN  IF k = 0
        THEN NoteTimestamp([st EXCEPT !.an[sampleObj] = Append(@, a)], d, a)
        ELSE IF CompareRaises(AnalysisOf(saved[k]).workflow_version,
                              AnalysisOf(a).workflow_version)
        THEN [st EXCEPT !.err = TRUE]
        ELSE Resolve(st, d, sampleObj, saved[k], a)

\* "for bundle in sample["analysis"]", from index k of the live list
RECURSIVE AnalysisLoop(_, _, _, _, _)
AnalysisLoop(st, d, sampleObj, sample, k) ==
    IF st.err \/ k > Len(st.an[sample]) THEN st
    ELSE AnalysisLoop(MergeAnalysis(st, d, sampleObj, st.an[sample][k]),
                      d, sampleObj, sample, k + 1)

\* faulty variant: the entries of an unseen sample are folded into the first
\* saved sample instead of the sample being appended
MergeSample_Flatten(st, d, specObj, sample) ==
    LET saved == st.samp[specObj]
        k == LastIndex(saved, LAMBDA o :
                bundles[o].sample_uuid = bundles[sample].sample_uuid)
    IN  IF k = 0
        THEN [st EXCEPT !.an[saved[1]] = @ \o st.an[sample]]
        ELSE AnalysisLoop(st, d, saved[k], sample, 1)

\* one sample of the incoming specimen against the saved specObj
MergeSample(st, d, specObj, sample) ==
    LET saved == st.samp[specObj]
        k == LastIndex(saved, LAMBDA o :
                bundles[o].sample_uuid = bundles[sample].sample_uuid)
    IN  IF k = 0
        THEN [st EXCEPT !.samp[specObj] = Append(@, sample)]
        ELSE AnalysisLoop(st, d, saved[k], sample, 1)

\* "for sample in specimen["samples"]", from index k of the live list
RECURSIVE SampleLoop(_, _, _, _, _)
SampleLoop(st, d, specObj, specimen, k) ==
    IF st.err \/ k > Len(st.samp[specimen]) THEN st
    ELSE SampleLoop(MergeSample(st, d, specObj, st.samp[specimen][k]),
                    d, specObj, specimen, k + 1)

\* faulty variant: the incoming specimen is appended without looking for its uuid
MergeSpecimen_AlwaysAppend(st, d, specimen) ==
    [st EXCEPT !.spec[st.map[d]] = Append(@, specimen)]

\* one specimen of the incoming bundle against the saved donorObj
MergeSpecimen(st, d, specimen) ==
    LET donorObj == st.map[d]
        saved == st.spec[donorObj]
        k == LastIndex(saved, LAMBDA o :
                bundles[o].specimen_uuid = bundles[specimen].specimen_uuid)
    IN  IF k = 0
        THEN [st EXCEPT !.spec[donorObj] = Append(@, specimen)]
        ELSE SampleLoop(st, d, saved[k], specimen, 1)

\* "for specimen in metaObj["specimen"]", from index k of the live list
RECURSIVE SpecimenLoop(_, _, _, _)
SpecimenLoop(st, d, metaObj, k) ==
    IF st.err \/ k > Len(st.spec[metaObj]) THEN st
    ELSE SpecimenLoop(MergeSpecimen(st, d, st.spec[metaObj][k]),
                      d, metaObj, k + 1)

\* a donor not seen yet: the bundle object becomes the donor's record
InsertDonor(st, top, metaObj) ==
    [st EXCEPT
        !.map = (bundles[metaObj].donor_uuid :> metaObj) @@ @,
        !.hist = (bundles[metaObj].donor_uuid :> <<top[metaObj]>>) @@ @]

\* faulty variant: only the first donor of the run is ever inserted
MergeStep_FirstDonorOnly(st, top, metaObj) ==
    IF DOMAIN st.map = {}
    THEN InsertDonor(st, top, metaObj)
    ELSE IF bundles[metaObj].donor_uuid \notin DOMAIN st.map
    THEN st
    ELSE SpecimenLoop(st, bundles[metaObj].donor_uuid, metaObj, 1)

\* one iteration of "for metaObj in metadataObjs"
MergeStep(st, top, metaObj) ==
    IF bundles[metaObj].donor_uuid \notin DOMAIN st.map
    THEN InsertDonor(st, top, metaObj)
    ELSE SpecimenLoop(st, bundles[metaObj].donor_uuid, metaObj, 1)

\* donorMapping[i]["timestamp"] = max(timestamp_list), for every donor
Rollup(st, top) ==
    [m \in DOMAIN top |->
        IF \E d \in DOMAIN st.map : st.map[d] = m
        THEN PyMax(st.hist[CHOOSE d \in DOMAIN st.map : st.map[d] = m])
        ELSE top[m]]

(***************************************************************************)
(* DonorMappings as values: what == of two returned dicts compares.        *)
(***************************************************************************)
SampleValue(an, s) ==
    [sample_uuid |-> bundles[s].sample_uuid,
     analysis |-> [i \in 1..Len(an[s]) |-> AnalysisOf(an[s][i])]]

SpecimenValue(samp, an, p) ==
    [specimen_uuid |-> bundles[p].specimen_uuid,
     samples |-> [i \in 1..Len(samp[p]) |-> SampleValue(an, samp[p][i])]]

BundleValue(spec, samp, an, top, m) ==
    [donor_uuid |-> bundles[m].donor_uuid,
     timestamp |-> top[m],
     specimen |-> [i \in 1..Len(spec[m]) |->
                      SpecimenValue(samp, an, spec[m][i])]]

MappingValue(st, top) ==
    [d \in DOMAIN st.map |->
        BundleValue(st.spec, st.samp, st.an, top, st.map[d])]

(***************************************************************************)
(* SpecMerge: mergeDonors(metadataObjs), then mergeDonors(metadataObjs)    *)
(* again on the same objects.                                              *)
(***************************************************************************)
Objects == 1..Len(bundles)

MergeInit ==
    /\ UuidIdle
    /\ AsmIdle
    /\ MainIdle
    /\ bundles \in BundleSeqs
    /\ specimenList = [i \in Objects |-> <<i>>]
    /\ samplesList = [i \in Objects |-> <<i>>]
    /\ analysisList = [i \in Objects |-> <<i>>]
    /\ timestamp = [i \in Objects |-> bundles[i].timestamp]
    /\ donorMapping = <<>>
    /\ uuid_to_timestamp = <<>>
    /\ mpos = 1
    /\ mpc = "loop"
    /\ run = 1
    /\ firstResult = <<>>

\* one iteration of "for metaObj in metadataObjs"; a ValueError of
\* semver.compare ends the call, what the iteration did before it stays done
MergeBundle ==
    /\ mpc = "loop"
    /\ mpos <= Len(bundles)
    /\ LET st == MergeStep(MergeState, timestamp, mpos)
       IN  /\ donorMapping' = st.map
           /\ uuid_to_timestamp' = st.hist
           /\ specimenList' = st.spec
           /\ samplesList' = st.samp
           /\ analysisList' = st.an
           /\ mpc' = IF st.err THEN "raised" ELSE "loop"
    /\ mpos' = mpos + 1
    /\ UNCHANGED <<bundles, timestamp, run, firstResult, uuidVars, asmVars,
                   mainVars>>

\* the timestamp loop after the bundle loop, and "return donorMapping"
MergeReturn ==
    /\ mpc = "loop"
    /\ mpos > Len(bundles)
    /\ timestamp' = Rollup(MergeState, timestamp)
    /\ mpc' = "returned"
    /\ UNCHANGED <<bundles, specimenList, samplesList, analysisList,
                   donorMapping, uuid_to_timestamp, mpos, run, firstResult,
                   uuidVars, asmVars, mainVars>>

\* the caller keeps the result and calls mergeDonors on the same list again
MergeAgain ==
    /\ mpc = "returned"
    /\ run = 1
    /\ firstResult' = MappingValue(MergeState, timestamp)
    /\ donorMapping' = <<>>
    /\ uuid_to_timestamp' = <<>>
    /\ mpos' = 1
    /\ mpc' = "loop"
    /\ run' = 2
    /\ UNCHANGED <<bundles, heapVars, uuidVars, asmVars, mainVars>>

MergeNext == MergeBundle \/ MergeReturn \/ MergeAgain

SpecMerge == MergeInit /\ [][MergeNext]_vars

(***************************************************************************)
(* mergeDonors as a function of the order in which the bundle objects are  *)
(* processed, from the objects as they are before the first call.          *)
(***************************************************************************)
InitialState ==
    [map |-> <<>>, hist |-> <<>>,
     spec |-> [i \in Objects |-> <<i>>],
     samp |-> [i \in Objects |-> <<i>>],
     an |-> [i \in Objects |-> <<i>>],
     err |-> FALSE]

InitialTop == [i \in Objects |-> bundles[i].timestamp]

\* the state after the first k bundles of order
RECURSIVE MergeSeq(_, _, _, _)
MergeSeq(st, top, order, k) ==
    IF k = 0 THEN st
    ELSE LET prev == MergeSeq(st, top, order, k - 1)
         IN  IF prev.err THEN prev ELSE MergeStep(prev, top, order[k])

\* the DonorMapping mergeDonors returns for the bundles taken in this order
mergeDonors(order) ==
    LET st == MergeSeq(InitialState, InitialTop, order, Len(order))
    IN  MappingValue(st, Rollup(st, InitialTop))

\* in the first call, the state before the bundle processed last
Before == MergeSeq(InitialState, InitialTop, [i \in Objects |-> i], mpos - 2)

\* the bundle processed last
Incoming == mpos - 1

Stepped == run = 1 /\ mpos >= 2

\* the saved sample the single sample of bundle m is merged into, or 0
SavedSampleOf(st, m) ==
    IF bundles[m].donor_uuid \notin DOMAIN st.map THEN 0
    ELSE LET specs == st.spec[st.map[bundles[m].donor_uuid]]
             k1 == LastIndex(specs, LAMBDA o :
                     bundles[o].specimen_uuid = bundles[m].specimen_uuid)
         IN  IF k1 = 0 THEN 0
             ELSE LET k2 == LastIndex(st.samp[specs[k1]], LAMBDA o :
                             bundles[o].sample_uuid = bundles[m].sample_uuid)
                  IN  IF k2 = 0 THEN 0 ELSE st.samp[specs[k1]][k2]

\* the saved analysis entry the analysis entry of bundle m competes with, or 0
SavedAnalysisOf(st, m) ==
    LET s == SavedSampleOf(st, m)
    IN  IF s = 0 THEN 0
        ELSE LET k == LastIndex(st.an[s], LAMBDA o :
                        AnalysisOf(o).analysis_type =
                            AnalysisOf(m).analysis_type)
             IN  IF k = 0 THEN 0 ELSE st.an[s][k]

OfType(list, t) == SelectSeq(list, LAMBDA o : AnalysisOf(o).analysis_type = t)

SamePath(i, j) ==
    /\ bundles[i].donor_uuid = bundles[j].donor_uuid
    /\ bundles[i].specimen_uuid = bundles[j].specimen_uuid
    /\ bundles[i].sample_uuid = bundles[j].sample_uuid

VersionOf(a) == AnalysisOf(a).workflow_version

\* C3: two bundles of one donor, specimen and sample whose analysis entries
\* have one analysis_type and the versions "1.0.0" and "2.0.0", in that order,
\* merge into a sample whose analysis list is the "2.0.0" entry alone; and
\* whenever the incoming entry is strictly newer than the saved entry of its
\* analysis_type, the saved entry is removed and the incoming entry is the
\* only one of that type.
C3_VersionWins ==
    /\ ( /\ run = 1
         /\ mpos = 3
         /\ SamePath(1, 2)
         /\ AnalysisOf(1).analysis_type = AnalysisOf(2).analysis_type
         /\ VersionOf(1) = "1.0.0"
         /\ VersionOf(2) = "2.0.0" )
       => analysisList[1] = <<2>>
    /\ ( /\ Stepped
         /\ SavedAnalysisOf(Before, Incoming) # 0
         /\ SemverCompare(VersionOf(SavedAnalysisOf(Before, Incoming)),
                          VersionOf(Incoming)) = 0 - 1 )
       => LET s == SavedSampleOf(Before, Incoming)
              old == SavedAnalysisOf(Before, Incoming)
          IN  /\ OfType(analysisList[s], AnalysisOf(Incoming).analysis_type)
                    = <<Incoming>>
              /\ \A i \in 1..Len(analysisList[s]) : analysisList[s][i] # old
              /\ Len(analysisList[s]) = Len(Before.an[s])

C3_Witness ==
    /\ run = 1
    /\ mpos = 3
    /\ SamePath(1, 2)
    /\ AnalysisOf(1).analysis_type = AnalysisOf(2).analysis_type
    /\ VersionOf(1) = "1.0.0"
    /\ VersionOf(2) = "2.0.0"
    /\ HasTimestamp(1)
    /\ analysisList[1] = <<2>>

BothStamped(i, j) == HasTimestamp(i) /\ HasTimestamp(j)

C4_WitnessLaterFirst ==
    /\ run = 1
    /\ mpos = 3
    /\ SamePath(1, 2)
    /\ AnalysisOf(1).analysis_type = AnalysisOf(2).analysis_type
    /\ VersionOf(1) = VersionOf(2)
    /\ BothStamped(1, 2)
    /\ AnalysisOf(1).timestamp = T2
    /\ AnalysisOf(2).timestamp = T1
    /\ analysisList[1] = <<1>>

\* the incoming entry loses against the saved entry old
Loses(old, new) ==
    LET cmp == SemverCompare(VersionOf(old), VersionOf(new))
    IN  \/ cmp = 1
        \/ /\ cmp = 0
           /\ BothStamped(old, new)
           /\ DateParse(AnalysisOf(new).timestamp)
                 <= DateParse(AnalysisOf(old).timestamp)
        \/ /\ cmp = 0
           /\ ~BothStamped(old, new)

\* C5: when the incoming entry matches a saved entry's analysis_type and its
\* version is strictly older, or the versions are equal and its timestamp is
\* equal or earlier, or the versions are equal and either entry has no
\* timestamp, the step leaves the sample's analysis list and the donor's
\* timestamp history as they were.
C5_LoserChangesNothing ==
    ( /\ Stepped
      /\ SavedAnalysisOf(Before, Incoming) # 0
      /\ Loses(SavedAnalysisOf(Before, Incoming), Incoming) )
    => /\ analysisList = Before.an
       /\ uuid_to_timestamp = Before.hist
       /\ samplesList = Before.samp
       /\ specimenList = Before.spec

C5_WitnessOlder ==
    /\ Stepped
    /\ mpc = "loop"
    /\ SavedAnalysisOf(Before, Incoming) # 0
    /\ SemverCompare(VersionOf(SavedAnalysisOf(Before, Incoming)),
                     VersionOf(Incoming)) = 1
    /\ HasTimestamp(Incoming)
    /\ analysisList = Before.an

C5_WitnessNoTimestamp ==
    /\ Stepped
    /\ mpc = "loop"
    /\ SavedAnalysisOf(Before, Incoming) # 0
    /\ VersionOf(SavedAnalysisOf(Before, Incoming)) = VersionOf(Incoming)
    /\ HasTimestamp(Incoming)
    /\ ~HasTimestamp(SavedAnalysisOf(Before, Incoming))
    /\ uuid_to_timestamp = Before.hist

\* the timestamps of the analysis entries the bundles of donor d brought
Received(d) ==
    {AnalysisOf(i).timestamp :
        i \in {j \in Objects : bundles[j].donor_uuid = d /\ HasTimestamp(j)}}

\* C6: when mergeDonors returns, each donor's top-level timestamp is the
\* maximum of the timestamps of the analysis entries that donor received.
C6_TimestampRollup ==
    (run = 1 /\ mpc = "returned") =>
        \A d \in DOMAIN donorMapping :
            Received(d) # {} =>
                /\ timestamp[donorMapping[d]] \in Received(d)
                /\ \A t \in Received(d) :
                      DateParse(t) <= DateParse(timestamp[donorMapping[d]])

C8_OrderIndependent ==
    ( /\ run = 1
      /\ mpc = "returned"
      /\ Len(bundles) = 2
      /\ bundles[1].donor_uuid # bundles[2].donor_uuid )
    => /\ MappingValue(MergeState, timestamp) = mergeDonors(<<1, 2>>)
       /\ MappingValue(MergeState, timestamp) = mergeDonors(<<2, 1>>)

C8_Witness ==
    /\ run = 1
    /\ mpc = "returned"
    /\ Len(bundles) = 2
    /\ bundles[1].donor_uuid # bundles[2].donor_uuid
    /\ bundles[1].timestamp # bundles[2].timestamp
    /\ DOMAIN donorMapping = {"d1", "d2"}
    /\ MappingValue(MergeState, timestamp) = mergeDonors(<<2, 1>>)

(***************************************************************************)
(* main: the record loop, getWorkflowObjects, the validation pass,         *)
(* writeDataBundleDirs and the upload section.  The model starts after the *)
(* checks of the command line and of the output directory have passed; the *)
(* two schemas are files read at run time and are inputs of the model.     *)
(***************************************************************************)
\* None as it stands in a field of this name (versions are plain strings)
NoneOf(field) == IF field = "workflow_version" THEN "None" ELSE None

\* keyFieldsMapping of setUuids
BusinessKey == <<"center_name", "submitter_donor_id",
                 "submitter_specimen_id", "submitter_sample_id">>

KeyFieldsMapping(uuidName) ==
    CASE uuidName = "donor_uuid" -> SubSeq(BusinessKey, 1, 2)
      [] uuidName = "specimen_uuid" -> SubSeq(BusinessKey, 1, 3)
      [] uuidName = "sample_uuid" -> BusinessKey

\* keyFieldsMapping.keys(): the order of a dict's keys is the interpreter's
UuidOrders ==
    {o \in [1..3 -> {"donor_uuid", "specimen_uuid", "sample_uuid"}] :
        \A i, j \in 1..3 : o[i] = o[j] => i = j}

\* the first field of the list that is absent from dataObj or None in it, or 0
FirstBad(dataObj, fields) ==
    LET bad == {i \in 1..Len(fields) :
                  \/ fields[i] \notin DOMAIN dataObj
                  \/ dataObj[fields[i]] = NoneOf(fields[i])}
    IN  IF bad = {} THEN 0 ELSE CHOOSE i \in bad : \A j \in bad : i <= j

\* how a loop over key fields ends at a bad field: dataObj[field] raises
\* KeyError when the key is absent; a None value is logged and setUuids returns
BadOutcome(dataObj, field) ==
    [status |-> IF field \in DOMAIN dataObj THEN "none" ELSE "raised",
     dict |-> dataObj]

\* "for uuidName in keyFieldsMapping.keys()", from index k of the key order
RECURSIVE SetKeyUuids(_, _, _)
SetKeyUuids(dataObj, order, k) ==
    IF k > Len(order) THEN [status |-> "ok", dict |-> dataObj]
    ELSE LET fields == KeyFieldsMapping(order[k])
             b == FirstBad(dataObj, fields)
         IN  IF b # 0 THEN BadOutcome(dataObj, fields[b])
             ELSE SetKeyUuids(
                    (order[k] :> generateUuid5(
                        [i \in 1..Len(fields) |-> dataObj[fields[i]]]))
                    @@ dataObj, order, k + 1)

\* setUuids(dataObj) with its early returns: the dict as the call leaves it,
\* and whether the call returned normally ("ok"), returned early after
\* logging a None field ("none") or raised KeyError ("raised")
setUuidsResult(dataObj, order) ==
    LET r == SetKeyUuids(dataObj, order, 1)
        fields == <<"sample_uuid", "workflow_name", "workflow_version">>
        b == FirstBad(r.dict, fields)
    IN  IF r.status # "ok" THEN r
        ELSE IF b # 0 THEN BadOutcome(r.dict, fields[b])
        ELSE [status |-> "ok",
              dict |-> ("workflow_uuid" :> generateUuid5(
                            <<IdString(r.dict.sample_uuid),
                              r.dict.workflow_name,
                              VersionString(r.dict.workflow_version)>>))
                       @@ r.dict]

\* schema["properties"].keys() of the flat input schema
PropNames ==
    {"program", "project", "center_name", "submitter_donor_id", "donor_uuid",
     "submitter_donor_primary_site", "submitter_specimen_id", "specimen_uuid",
     "submitter_specimen_type", "submitter_experimental_design",
     "submitter_sample_id", "sample_uuid", "analysis_type", "workflow_name",
     "workflow_version", "file_type", "file_path"}

\* the flat schemas of the model: "strict" types the business key and the
\* workflow fields as strings, "lax" constrains nothing
InputSchemas == {"strict", "lax"}

\* validateObjAgainstJsonSchema(dataObj, schema) for a flat record
ValidFlat(dataObj, schema) ==
    \/ schema = "lax"
    \/ \A i \in 1..Len(BusinessKey) :
          dataObj[BusinessKey[i]] # NoneOf(BusinessKey[i])

\* getDataObj(dict, schema): "raised" when setUuids raises, "none" when the
\* record fails validation, else "ok" with the record
getDataObj(dict, schema, order) ==
    LET r == setUuidsResult(dict, order)
        props == [p \in PropNames |-> getValueFromObject(r.dict, p)]
        dataObj == IF "workflow_uuid" \in DOMAIN r.dict
                   THEN ("workflow_uuid" :> r.dict.workflow_uuid) @@ props
                   ELSE props
    IN  IF r.status = "raised" THEN [status |-> "raised"]
        ELSE IF ValidFlat(dataObj, schema)
        THEN [status |-> "ok", obj |-> dataObj]
        ELSE [status |-> "none"]

\* the rows of the model: one donor, specimen and sample, two workflow
\* versions, two files, with or without the primary site; and the first row
\* with submitter_sample_id None (an empty cell) or absent (no such column)
CompleteRows ==
    LET plain == {InputRow(<<"a">>, ver, fp) :
                    ver \in {"1.0.0", "1.1.0"}, fp \in ExistingFiles}
    IN  plain \cup {WithSite(r) : r \in plain}

Without(row, field) == [f \in DOMAIN row \ {field} |-> row[f]]

LackingRows ==
    LET r == InputRow(<<"a">>, "1.0.0", "f1")
    IN  {[r EXCEPT !.submitter_sample_id = None],
         Without(r, "submitter_sample_id")}

MainRows == CompleteRows \cup LackingRows

\* a row lacks a business-key field: the key is absent or its value is None
Lacks(row) == FirstBad(row, BusinessKey) # 0

\* the bundle schemas of the model: "any" accepts every bundle, "site"
\* requires a non-empty submitter_donor_primary_site
MetadataSchemas == {"any", "site"}

\* validateObjAgainstJsonSchema(metadataObj, schema) for a bundle
ValidBundle(metadataObj, schema) ==
    \/ schema = "any"
    \/ metadataObj.submitter_donor_primary_site # ""

\* validateMetadataObjs(...)["invalid"], as the set of their bundle uuids
InvalidObjs(objMap, schema) ==
    {w \in DOMAIN objMap : ~ValidBundle(objMap[w], schema)}

\* file_path.split("/")[-1]: the paths of the model have no directory part
Basename(path) == path

\* the workflow_outputs list of a bundle
OutputsOf(metaObj) ==
    metaObj.specimen[1].samples[1].analysis[1].workflow_outputs

\* writeDataBundleDirs: per bundle a directory named by its workflow_uuid with
\* a link per output file and metadata.json
writeDataBundleDirs(objMap) ==
    [w \in DOMAIN objMap |->
        [files |-> {Basename(OutputsOf(objMap[w])[i].file_path) :
                       i \in 1..Len(OutputsOf(objMap[w]))}
                   \cup {"metadata.json"},
         metadata |-> objMap[w]]]

\* the rows add_to_registration writes: one per file of every bundle directory
RegistrationRows(dirs) ==
    UNION {{<<b, f>> : f \in dirs[b].files} : b \in DOMAIN dirs}

\* the object id the metadata server assigns to a registered file
ObjectId(b, f) == <<"object", b, f>>

\* what registering writes: one upload manifest per bundle of the
\* registration manifest, named by the bundle uuid, a line per file
UploadManifestsOf(rows) ==
    [b \in {r[1] : r \in rows} |->
        [f \in {r[2] : r \in {q \in rows : q[1] = b}} |-> ObjectId(b, f)]]

\* collectReceiptData(manifestData, metadataObj): a row per workflow output;
\* the call needs manifestData[fileName] for every output
CanCollect(manifestData, metaObj) ==
    /\ "metadata.json" \in DOMAIN manifestData
    /\ \A i \in 1..Len(OutputsOf(metaObj)) :
          Basename(OutputsOf(metaObj)[i].file_path) \in DOMAIN manifestData

collectReceiptData(manifestData, metaObj) ==
    [i \in 1..Len(OutputsOf(metaObj)) |->
        [bundle_uuid |-> metaObj.specimen[1].samples[1].analysis[1].bundle_uuid,
         metadata_uuid |-> manifestData["metadata.json"],
         file_path |-> OutputsOf(metaObj)[i].file_path,
         file_uuid |-> manifestData[Basename(OutputsOf(metaObj)[i].file_path)]]]

\* faulty variant: invalid bundles are only logged, as in the --test branch
AfterValidation_LogOnly(numInvalidResults) == "write"

\* "if numInvalidResults != 0: ... sys.exit(1)"
AfterValidation(numInvalidResults) ==
    IF numInvalidResults # 0 THEN "exit1" ELSE "write"

\* faulty variant: the upload goes ahead whatever register_upload returned
AfterRegistration_Always(reg_success) == "upload"

\* "if reg_success: ... else: ... sys.exit(1)"
AfterRegistration(reg_success) == IF reg_success THEN "upload" ELSE "exit1"

MainInit ==
    /\ UuidIdle
    /\ MergeIdle
    /\ flatMetadataObjs = <<>>
    /\ commonObjMap = <<>>
    /\ apos = 0
    /\ apc = "idle"
    /\ clock = StartClock
    /\ fileDataList \in UNION {[1..n -> MainRows] : n \in 0..MaxRecords}
    /\ inputMetadataSchema \in InputSchemas
    /\ metadataSchema \in MetadataSchemas
    /\ options \in [skip_upload : BOOLEAN, skip_submit : BOOLEAN]
    /\ rpos = 1
    /\ mainpc = "records"
    /\ bundleDirs = <<>>
    /\ submission = "none"
    /\ registration = NoFile
    /\ redwood_upload_manifest = None
    /\ uploadManifests = <<>>
    /\ uploaded = {}
    /\ receipt = NoFile
    /\ receiptSent = FALSE
    /\ calls = <<>>

mainFrame == <<fileDataList, inputMetadataSchema, metadataSchema, options>>
sideEffects == <<bundleDirs, submission, registration,
                 redwood_upload_manifest, uploadManifests, uploaded, receipt,
                 receiptSent, calls>>

\* one iteration of "for data in fileDataList": getDataObj, then skip or append
MainRecord ==
    /\ mainpc = "records"
    /\ rpos <= Len(fileDataList)
    /\ \E order \in UuidOrders :
          LET r == getDataObj(fileDataList[rpos], inputMetadataSchema, order)
          IN  /\ flatMetadataObjs' = IF r.status = "ok"
                                     THEN Append(flatMetadataObjs, r.obj)
                                     ELSE flatMetadataObjs
              /\ mainpc' = IF r.status = "raised" THEN "raised" ELSE "records"
    /\ rpos' = rpos + 1
    /\ UNCHANGED <<commonObjMap, apos, apc, clock, mainFrame, sideEffects,
                   uuidVars, mergeVars>>

\* structuredWorkflowObjMap = getWorkflowObjects(flatMetadataObjs): the call
MainAssemble ==
    /\ mainpc = "records"
    /\ rpos > Len(fileDataList)
    /\ apc' = "loop"
    /\ apos' = 1
    /\ mainpc' = "assemble"
    /\ UNCHANGED <<flatMetadataObjs, commonObjMap, clock, rpos, mainFrame,
                   sideEffects, uuidVars, mergeVars>>

\* getWorkflowObjects raised: nothing in main catches it
MainAssembleRaised ==
    /\ mainpc = "assemble"
    /\ apc = "failed"
    /\ mainpc' = "raised"
    /\ UNCHANGED <<asmVars, rpos, mainFrame, sideEffects, uuidVars,
                   mergeVars>>

\* the validation pass over the assembled bundles (the --test branch before
\* it validates the same bundles and only logs)
MainValidate ==
    /\ mainpc = "assemble"
    /\ apc = "done"
    /\ mainpc' = AfterValidation(
                    Cardinality(InvalidObjs(commonObjMap, metadataSchema)))
    /\ UNCHANGED <<asmVars, rpos, mainFrame, sideEffects, uuidVars,
                   mergeVars>>

\* writeDataBundleDirs, then "if (options.skip_upload): ... return None"
MainWrite ==
    /\ mainpc = "write"
    /\ bundleDirs' = writeDataBundleDirs(commonObjMap)
    /\ mainpc' = IF options.skip_upload THEN "done" ELSE "submit"
    /\ UNCHANGED <<asmVars, rpos, mainFrame, submission, registration,
                   redwood_upload_manifest, uploadManifests, uploaded,
                   receipt, receiptSent, calls, uuidVars, mergeVars>>

\* "if not options.skip_submit: r = requests.post(...)"
MainSubmit ==
    /\ mainpc = "submit"
    /\ submission' = IF options.skip_submit THEN submission ELSE "created"
    /\ mainpc' = "manifest"
    /\ UNCHANGED <<asmVars, rpos, mainFrame, bundleDirs, registration,
                   redwood_upload_manifest, uploadManifests, uploaded,
                   receipt, receiptSent, calls, uuidVars, mergeVars>>

\* the registration manifest: a row per file of every bundle directory;
\* redwood_upload_manifest is named after the bundle os.walk finds first
MainManifest ==
    /\ mainpc = "manifest"
    /\ registration' = [written |-> TRUE, rows |-> RegistrationRows(bundleDirs)]
    /\ IF DOMAIN bundleDirs = {}
       THEN redwood_upload_manifest' = None
       ELSE \E b \in DOMAIN bundleDirs : redwood_upload_manifest' = b
    /\ mainpc' = "register"
    /\ UNCHANGED <<asmVars, rpos, mainFrame, bundleDirs, submission,
                   uploadManifests, uploaded, receipt, receiptSent, calls,
                   uuidVars, mergeVars>>

\* os.path.dirname(redwood_upload_manifest) raises when no bundle was found
MainRegisterRaised ==
    /\ mainpc = "register"
    /\ redwood_upload_manifest = None
    /\ mainpc' = "raised"
    /\ UNCHANGED <<asmVars, rpos, mainFrame, sideEffects, uuidVars,
                   mergeVars>>

\* reg_success = register_upload(...), and the branch on it
MainRegister ==
    /\ mainpc = "register"
    /\ redwood_upload_manifest # None
    /\ \E reg_success \in BOOLEAN :
          /\ calls' = Append(calls, <<"register_upload", reg_success>>)
          /\ uploadManifests' = IF reg_success
                                THEN UploadManifestsOf(registration.rows)
                                ELSE uploadManifests
          /\ mainpc' = AfterRegistration(reg_success)
    /\ UNCHANGED <<asmVars, rpos, mainFrame, bundleDirs, submission,
                   registration, redwood_upload_manifest, uploaded, receipt,
                   receiptSent, uuidVars, mergeVars>>

\* perform_upload(redwood_upload_manifest, ...): the files of that one
\* manifest are stored; a failed upload ends the run
MainUpload ==
    /\ mainpc = "upload"
    /\ \E success \in BOOLEAN :
          /\ calls' = Append(calls, <<"perform_upload", success>>)
          /\ uploaded' =
                IF success /\ redwood_upload_manifest \in DOMAIN uploadManifests
                THEN {uploadManifests[redwood_upload_manifest][f] :
                        f \in DOMAIN uploadManifests[redwood_upload_manifest]}
                ELSE uploaded
          /\ mainpc' = IF success THEN "receipt" ELSE "exit1"
    /\ UNCHANGED <<asmVars, rpos, mainFrame, bundleDirs, submission,
                   registration, redwood_upload_manifest, uploadManifests,
                   receipt, receiptSent, uuidVars, mergeVars>>

\* parseUploadManifestFile(redwood_upload_manifest)
manifest_data ==
    IF redwood_upload_manifest \in DOMAIN uploadManifests
    THEN uploadManifests[redwood_upload_manifest]
    ELSE <<>>

\* collectReceiptData raises KeyError for a file the manifest does not list
MainReceiptRaised ==
    /\ mainpc = "receipt"
    /\ \E b \in DOMAIN bundleDirs :
          ~CanCollect(manifest_data, bundleDirs[b].metadata)
    /\ mainpc' = "raised"
    /\ UNCHANGED <<asmVars, rpos, mainFrame, sideEffects, uuidVars,
                   mergeVars>>

\* the receipt rows of every bundle directory, and writeReceipt
MainReceipt ==
    /\ mainpc = "receipt"
    /\ \A b \in DOMAIN bundleDirs :
          CanCollect(manifest_data, bundleDirs[b].metadata)
    /\ receipt' =
          [written |-> TRUE,
           rows |-> [b \in DOMAIN bundleDirs |->
                       collectReceiptData(manifest_data,
                                          bundleDirs[b].metadata)]]
    /\ mainpc' = "send"
    /\ UNCHANGED <<asmVars, rpos, mainFrame, bundleDirs, submission,
                   registration, redwood_upload_manifest, uploadManifests,
                   uploaded, receiptSent, calls, uuidVars, mergeVars>>

\* "if not options.skip_submit: ... requests.put(...)", and return
MainSend ==
    /\ mainpc = "send"
    /\ receiptSent' = ~options.skip_submit
    /\ mainpc' = "done"
    /\ UNCHANGED <<asmVars, rpos, mainFrame, bundleDirs, submission,
                   registration, redwood_upload_manifest, uploadManifests,
                   uploaded, receipt, calls, uuidVars, mergeVars>>

MainNext ==
    \/ MainRecord \/ MainAssemble \/ AssembleRecord \/ AssembleReturn
    \/ MainAssembleRaised \/ MainValidate \/ MainWrite \/ MainSubmit
    \/ MainManifest \/ MainRegisterRaised \/ MainRegister \/ MainUpload
    \/ MainReceiptRaised \/ MainReceipt \/ MainSend

SpecMain == MainInit /\ [][MainNext]_vars

\* the rows the record loop has been through
RowsDone == SubSeq(fileDataList, 1, rpos - 1)

\* the record getDataObj returns for a row that lacks nothing
RecordOf(row) ==
    getDataObj(row, inputMetadataSchema,
               <<"donor_uuid", "specimen_uuid", "sample_uuid">>).obj

\* C11: in the record loop of main a row that lacks a business-key field (the
\* key is absent or its value is None) never aborts the run, neither in the
\* loop nor later in the assembler, and is left out of flatMetadataObjs, while
\* every row that lacks nothing is appended: the list handed to the assembler
\* is exactly the records of the complete rows, in input order.
C11_ValidationGating ==
    LET kept == SelectSeq(RowsDone, LAMBDA r : ~Lacks(r))
    IN  /\ ~(mainpc = "raised" /\ ~registration.written)
        /\ mainpc \in {"records", "assemble"} =>
              flatMetadataObjs = [i \in 1..Len(kept) |-> RecordOf(kept[i])]

(***************************************************************************)
(* SpecEndToEnd: getWorkflowObjects, then mergeDonors on the values of the *)
(* map it returned (the call main has at its --test branch).               *)
(***************************************************************************)
\* an assembled bundle as an input bundle of the merge: the bundle, its one
\* specimen, its one sample and its one analysis entry
AsInputBundle(workflowObj) ==
    [donor_uuid |-> workflowObj.donor_uuid,
     specimen_uuid |-> workflowObj.specimen[1].specimen_uuid,
     sample_uuid |-> workflowObj.specimen[1].samples[1].sample_uuid,
     timestamp |-> workflowObj.timestamp,
     analysis |-> workflowObj.specimen[1].samples[1].analysis[1]]

\* structuredWorkflowObjMap.values(): the bundles in the order of the dict
ValuesOrders(objMap) ==
    {o \in [1..Cardinality(DOMAIN objMap) -> DOMAIN objMap] :
        \A i, j \in DOMAIN o : o[i] = o[j] => i = j}

\* mergeDonors(structuredWorkflowObjMap.values()): the call
HandOver ==
    /\ apc = "done"
    /\ mpc = "idle"
    /\ \E o \in ValuesOrders(commonObjMap) :
          /\ bundles' = [i \in DOMAIN o |-> AsInputBundle(commonObjMap[o[i]])]
          /\ timestamp' = [i \in DOMAIN o |-> commonObjMap[o[i]].timestamp]
          /\ specimenList' = [i \in DOMAIN o |-> <<i>>]
          /\ samplesList' = [i \in DOMAIN o |-> <<i>>]
          /\ analysisList' = [i \in DOMAIN o |-> <<i>>]
    /\ donorMapping' = <<>>
    /\ uuid_to_timestamp' = <<>>
    /\ mpos' = 1
    /\ mpc' = "loop"
    /\ run' = 1
    /\ firstResult' = <<>>
    /\ UNCHANGED <<uuidVars, asmVars, mainVars>>

EndToEndNext ==
    AssembleRecord \/ AssembleReturn \/ HandOver \/ MergeBundle \/ MergeReturn

SpecEndToEnd == AsmInit /\ [][EndToEndNext]_vars

\* two rows of one donor, specimen, sample and analysis_type, with the
\* versions "1.0.0" and "1.1.0" and different files
TwoVersions ==
    /\ Len(flatMetadataObjs) = 2
    /\ flatMetadataObjs[1].sample_uuid = flatMetadataObjs[2].sample_uuid
    /\ flatMetadataObjs[1].analysis_type = flatMetadataObjs[2].analysis_type
    /\ {flatMetadataObjs[1].workflow_version,
        flatMetadataObjs[2].workflow_version} = {"1.0.0", "1.1.0"}
    /\ flatMetadataObjs[1].file_path # flatMetadataObjs[2].file_path

\* the file of the row with version "1.1.0"
NewerFile ==
    flatMetadataObjs[CHOOSE i \in 1..2 :
        flatMetadataObjs[i].workflow_version = "1.1.0"].file_path

\* C12: two rows of the same donor, specimen, sample and analysis_type with
\* the versions "1.0.0" and "1.1.0", each naming a different file, assembled
\* and then merged in either bundle order, give one donor with one specimen
\* and one sample whose only analysis entry is the "1.1.0" one, and its
\* workflow_outputs holds exactly the file of the "1.1.0" row.
C12_EndToEnd ==
    (mpc = "returned" /\ TwoVersions) =>
        /\ Cardinality(DOMAIN donorMapping) = 1
        /\ \A d \in DOMAIN donorMapping :
              LET tree == MappingValue(MergeState, timestamp)[d]
                  entries == tree.specimen[1].samples[1].analysis
              IN  /\ Len(tree.specimen) = 1
                  /\ Len(tree.specimen[1].samples) = 1
                  /\ Len(entries) = 1
                  /\ entries[1].workflow_version = "1.1.0"
                  /\ Len(entries[1].workflow_outputs) = 1
                  /\ entries[1].workflow_outputs[1].file_path = NewerFile

\* the scenario has run with the "1.0.0" bundle merged first, so that the
\* "1.1.0" bundle replaced it
C12_Witness ==
    /\ mpc = "returned"
    /\ TwoVersions
    /\ Len(bundles) = 2
    /\ bundles[1].analysis.workflow_version = "1.0.0"
    /\ AnalysisOf(analysisList[1][1]).workflow_version = "1.1.0"

(***************************************************************************)
(* Properties of the run of main after the assembler has returned.         *)
(***************************************************************************)
\* the validation pass has run and found at least one invalid bundle
InvalidFound ==
    /\ apc = "done"
    /\ mainpc \notin {"idle", "assemble"}
    /\ InvalidObjs(commonObjMap, metadataSchema) # {}

\* C13: once the validation pass of main has found an invalid bundle the run
\* has exited with failure and, then and ever after, no bundle directory or
\* metadata.json is written, no submission is created, no registration
\* manifest is written, and neither register_upload nor perform_upload has
\* been called (nor is there a receipt).
C13_FatalValidation ==
    InvalidFound =>
        /\ mainpc = "exit1"
        /\ bundleDirs = <<>>
        /\ submission = "none"
        /\ ~registration.written
        /\ calls = <<>>
        /\ uploaded = {}
        /\ ~receipt.written
        /\ ~receiptSent

\* a run with upload and submission switched on, with a valid and an invalid
\* bundle, has exited at the validation pass
C13_Witness ==
    /\ InvalidFound
    /\ mainpc = "exit1"
    /\ ~options.skip_upload
    /\ ~options.skip_submit
    /\ InvalidObjs(commonObjMap, metadataSchema) # DOMAIN commonObjMap

(***************************************************************************)
(* Properties of single merge steps and of whole merges (SpecMerge).       *)
(***************************************************************************)
\* the donor of the bundle processed last was in the mapping before the step
DonorKnown == bundles[Incoming].donor_uuid \in DOMAIN Before.map

\* the saved specimen the single specimen of bundle m is merged into, or 0
SavedSpecimenOf(st, m) ==
    IF bundles[m].donor_uuid \notin DOMAIN st.map THEN 0
    ELSE LET specs == st.spec[st.map[bundles[m].donor_uuid]]
             k == LastIndex(specs, LAMBDA o :
                    bundles[o].specimen_uuid = bundles[m].specimen_uuid)
         IN  IF k = 0 THEN 0 ELSE specs[k]

\* C14: in a merge step for a donor already in the mapping, an incoming
\* specimen whose specimen_uuid is not among the donor's specimens is appended
\* to the donor's specimen list as it is (its own samples and analysis lists
\* untouched) and nothing else changes; likewise an incoming sample with an
\* unseen sample_uuid is appended to the matching specimen's samples, and an
\* incoming analysis with an unseen analysis_type to the matching sample's
\* analysis list; in every case the step changes no list other than the one
\* child list it appends to (or, on a conflict, the matching sample's analysis
\* list), and no top-level timestamp before the final roll-up.
C14_MergeGranularity ==
    (Stepped /\ DonorKnown) =>
        LET b == Before
            m == Incoming
            now == MergeState
            p == SavedSpecimenOf(b, m)
            q == SavedSampleOf(b, m)
        IN  /\ now.map = b.map
            /\ mpc = "loop" => timestamp = InitialTop
            /\ IF p = 0
               THEN /\ now.spec = [b.spec EXCEPT
                                     ![b.map[bundles[m].donor_uuid]] =
                                         Append(@, m)]
                    /\ now.samp = b.samp
                    /\ now.an = b.an
                    /\ now.hist = b.hist
               ELSE IF q = 0
               THEN /\ now.spec = b.spec
                    /\ now.samp = [b.samp EXCEPT ![p] = Append(@, m)]
                    /\ now.an = b.an
                    /\ now.hist = b.hist
               ELSE IF SavedAnalysisOf(b, m) = 0
               THEN /\ now.spec = b.spec
                    /\ now.samp = b.samp
                    /\ now.an = [b.an EXCEPT ![q] = Append(@, m)]
               ELSE /\ now.spec = b.spec
                    /\ now.samp = b.samp
                    /\ \A o \in Objects \ {q} : now.an[o] = b.an[o]

\* a step has appended a sample to a saved specimen that already had one
C14_Witness ==
    /\ Stepped
    /\ DonorKnown
    /\ SavedSpecimenOf(Before, Incoming) # 0
    /\ SavedSampleOf(Before, Incoming) = 0
    /\ Len(samplesList[SavedSpecimenOf(Before, Incoming)]) = 2

\* a step has appended a whole specimen to a saved donor
C14_WitnessSpecimen ==
    /\ Stepped
    /\ DonorKnown
    /\ SavedSpecimenOf(Before, Incoming) = 0
    /\ Len(specimenList[donorMapping[bundles[Incoming].donor_uuid]]) = 2

(***************************************************************************)
(* SpecMergeVersions: mergeDonors on bundles whose analysis entries carry  *)
(* a workflow_name and a bundle_uuid, and a workflow_version that may not  *)
(* be a semantic version.                                                  *)
(***************************************************************************)
\* "1.0" is not a semantic version
VersionStrings == {"1.0.0", "2.0.0", "1.0"}

NamedEntries ==
    {[analysis_type |-> t, workflow_version |-> v, workflow_name |-> n,
      bundle_uuid |-> <<n, v>>] :
        t \in {"x", "y"}, v \in VersionStrings, n \in {"w1", "w2"}}

NamedBundles ==
    {[donor_uuid |-> p.donor_uuid, specimen_uuid |-> p.specimen_uuid,
      sample_uuid |-> p.sample_uuid, timestamp |-> T0, analysis |-> a] :
        p \in Paths, a \in NamedEntries}

NamedBundleSeqs ==
    {b \in UNION {[1..n -> NamedBundles] : n \in 1..MaxBundles} :
        b[1].sample_uuid = "s1"}

MergeVersionsInit ==
    /\ UuidIdle
    /\ AsmIdle
    /\ MainIdle
    /\ bundles \in NamedBundleSeqs
    /\ specimenList = [i \in Objects |-> <<i>>]
    /\ samplesList = [i \in Objects |-> <<i>>]
    /\ analysisList = [i \in Objects |-> <<i>>]
    /\ timestamp = [i \in Objects |-> bundles[i].timestamp]
    /\ donorMapping = <<>>
    /\ uuid_to_timestamp = <<>>
    /\ mpos = 1
    /\ mpc = "loop"
    /\ run = 1
    /\ firstResult = <<>>

SpecMergeVersions == MergeVersionsInit /\ [][MergeNext]_vars

\* the step for the bundle processed last had to compare its analysis entry
\* with a saved one, and one of the two versions is not a semantic version
BadComparison ==
    /\ Stepped
    /\ SavedAnalysisOf(Before, Incoming) # 0
    /\ CompareRaises(VersionOf(SavedAnalysisOf(Before, Incoming)),
                     VersionOf(Incoming))

Returned(name, success) == \E i \in DOMAIN calls : calls[i] = <<name, success>>

\* C16: when upload is not skipped, perform_upload is called only after
\* register_upload has returned success; the receipt file is written, and
\* the receipt is sent to the submission server, only after perform_upload
\* has returned success; and once register_upload or perform_upload has
\* returned failure the run has exited with failure and no receipt is
\* written or sent.
C16_UploadOrdering ==
    /\ \A i \in DOMAIN calls :
          calls[i][1] = "perform_upload" =>
              \E j \in 1..(i - 1) : calls[j] = <<"register_upload", TRUE>>
    /\ (receipt.written \/ receiptSent) => Returned("perform_upload", TRUE)
    /\ (Returned("register_upload", FALSE) \/ Returned("perform_upload", FALSE))
          => (mainpc = "exit1" /\ ~receipt.written /\ ~receiptSent)

\* a run has registered, uploaded, written the receipt and sent it
C16_Witness ==
    /\ mainpc = "done"
    /\ calls = <<<<"register_upload", TRUE>>, <<"perform_upload", TRUE>>>>
    /\ receipt.written
    /\ receiptSent

\* a run has exited because the upload failed after a good registration
C16_WitnessUploadFailed ==
    /\ mainpc = "exit1"
    /\ calls = <<<<"register_upload", TRUE>>, <<"perform_upload", FALSE>>>>

\* the files of bundle directory b: its output files and metadata.json
StoredAll(b) == \A f \in bundleDirs[b].files : ObjectId(b, f) \in uploaded

\* C17: in a run with at least one bundle and upload not skipped, where
\* registering has written one upload manifest per bundle and registration
\* and upload have succeeded, the files of every bundle are uploaded, the
\* receipt step does not fail, and the receipt written has one row, with a
\* file_uuid, for every workflow output file of every bundle.
C17_EveryBundleUploaded ==
    (Returned("register_upload", TRUE) /\ Returned("perform_upload", TRUE)) =>
        /\ \A b \in DOMAIN bundleDirs : StoredAll(b)
        /\ mainpc # "raised"
        /\ receipt.written =>
              \A b \in DOMAIN bundleDirs :
                  /\ b \in DOMAIN receipt.rows
                  /\ Len(receipt.rows[b]) = Len(OutputsOf(bundleDirs[b].metadata))

(***************************************************************************)
(* Properties of the merged tree a first call of mergeDonors returns.      *)
(***************************************************************************)
\* the first call has returned: MergeState and timestamp are its result
FirstReturned == run = 1 /\ mpc = "returned"

\* the sample objects in the merged tree of some donor
MergedSamples ==
    UNION {UNION {{samplesList[p][j] : j \in 1..Len(samplesList[p])} :
                     p \in {specimenList[donorMapping[d]][i] :
                              i \in 1..Len(specimenList[donorMapping[d]])}} :
             d \in DOMAIN donorMapping}

\* C18: after mergeDonors over any sequence of bundles that each have one
\* specimen, one sample and one analysis entry, every sample in every merged
\* donor has at most one analysis entry per analysis_type, also when the
\* competing entries differ in workflow_name or bundle_uuid.
C18_OneAnalysisPerType ==
    FirstReturned =>
        \A s \in MergedSamples :
            \A i, j \in 1..Len(analysisList[s]) :
                AnalysisOf(analysisList[s][i]).analysis_type =
                    AnalysisOf(analysisList[s][j]).analysis_type
                => i = j

\* a merge has returned after two entries of one analysis_type and different
\* workflow_name and bundle_uuid competed for one sample, the newer one
\* replacing the older
C18_Witness ==
    /\ FirstReturned
    /\ Len(bundles) = 2
    /\ SamePath(1, 2)
    /\ AnalysisOf(1).analysis_type = AnalysisOf(2).analysis_type
    /\ AnalysisOf(1).workflow_name # AnalysisOf(2).workflow_name
    /\ AnalysisOf(1).bundle_uuid # AnalysisOf(2).bundle_uuid
    /\ analysisList[1] = <<2>>

\* input bundle i as a value, as it was before the call and as it is now
BundleBefore(i) ==
    BundleValue(InitialState.spec, InitialState.samp, InitialState.an,
                InitialTop, i)

BundleNow(i) ==
    BundleValue(specimenList, samplesList, analysisList, timestamp, i)

\* C19: after a call of mergeDonors every input bundle (its specimen, samples
\* and analysis lists and its top-level timestamp) is equal to what it was
\* before the call.
C19_InputsUnchanged ==
    FirstReturned => \A i \in Objects : BundleNow(i) = BundleBefore(i)

\* the input entries that compete with the entry of bundle i
Rivals(i) ==
    {j \in Objects :
        /\ SamePath(i, j)
        /\ AnalysisOf(j).analysis_type = AnalysisOf(i).analysis_type}

\* the greatest workflow_version among the rivals of bundle i
GreatestVersion(i) ==
    VersionOf(CHOOSE j \in Rivals(i) :
        \A k \in Rivals(i) : SemverCompare(VersionOf(j), VersionOf(k)) >= 0)

\* the analysis objects in the merged tree under the donor, specimen and
\* sample uuids of bundle i
MergedEntries(i) ==
    IF bundles[i].donor_uuid \notin DOMAIN donorMapping THEN {}
    ELSE LET specs == specimenList[donorMapping[bundles[i].donor_uuid]]
             ps == {specs[k] : k \in {k \in 1..Len(specs) :
                       bundles[specs[k]].specimen_uuid =
                           bundles[i].specimen_uuid}}
             ss == UNION {{samplesList[p][k] : k \in {k \in 1..Len(samplesList[p]) :
                              bundles[samplesList[p][k]].sample_uuid =
                                  bundles[i].sample_uuid}} : p \in ps}
         IN  UNION {{analysisList[s][k] : k \in 1..Len(analysisList[s])} :
                       s \in ss}

\* C20: for single-specimen, single-sample, single-analysis bundles with
\* valid versions, after mergeDonors over the bundles in any order, for every
\* input bundle the merged tree of its donor holds, under the specimen and
\* sample with the bundle's uuids, an analysis entry of the bundle's
\* analysis_type whose workflow_version is the greatest among all input
\* entries of that donor, specimen, sample and analysis_type.
C20_NewestSurvives ==
    FirstReturned =>
        \A i \in Objects :
            \E a \in MergedEntries(i) :
                /\ AnalysisOf(a).analysis_type = AnalysisOf(i).analysis_type
                /\ VersionOf(a) = GreatestVersion(i)

\* the newest entry arrived first and an older rival after it, and the newest
\* is the one in the merged tree
C20_Witness ==
    /\ FirstReturned
    /\ \E i, j \in Objects :
          /\ i < j
          /\ j \in Rivals(i)
          /\ SemverCompare(VersionOf(i), VersionOf(j)) = 1
          /\ i \in MergedEntries(j)

====
